---- MODULE Spec2Model ----
(***************************************************************************)
(* ElectronLlamaServerManager (src/main/managers/llama-server.ts): the     *)
(* supervisor of llama.cpp server child processes, keyed by session id.    *)
(*                                                                         *)
(* One action is one step of the single-threaded event loop: a public      *)
(* method called by the application (launchServer, cleanupProcess, close), *)
(* a 'data' event of a child's stdout, or a child's 'close' event.  The     *)
(* operating system's part (a child terminating) is the action exit.       *)
(*                                                                         *)
(* HardwareManager (managers/hardware): the cached hardware profile with   *)
(* the launch configuration calculateOptimalSettings recommends for it.    *)
(***************************************************************************)
EXTENDS Integers, Sequences, FiniteSets, TLC

\* ------------------------------------------------------------------ bounds
MaxProcs == 3          \* child processes started over a run
MaxLive == 2           \* children whose 'close' event is still to come, at any time
NumIds == 2            \* session ids in use
NumOptions == 2        \* distinct LaunchOptions values per session id
MaxMemoryGB == 130     \* largest total memory of a machine, in GB
MaxPerfCores == 10     \* largest performance-core count of a machine
MaxEffCores == 2       \* largest efficiency-core count of a host with faulty probes
MaxDetections == 2     \* runs of detectHardware over a run
MaxTokens == 2         \* longest token sequence of a /tokenize response
MaxRss == 2            \* largest resident memory pidusage samples for a child

Ids == 1..NumIds
Options == 1..NumOptions
Pids == 1..MaxProcs
None == 0              \* Map.get() of an absent key

\* ------------------------------------------------------- the output stream
\* The text a child writes to stdout, as a sequence of pieces of text.  "J1"
\* and "J2" are the two halves of the text {"message":"HTTP server listening"},
\* neither of them JSON by itself, and "NL" is the line terminator.
NL == "NL"
SentinelText == <<"J1", "J2">>
\* what a child that loads its model writes: the record, as one line
Script == <<"J1", "J2", NL>>

\* data.toString().split('\n')
RECURSIVE split(_)
split(s) ==
  IF \A i \in 1..Len(s) : s[i] # NL
  THEN <<s>>
  ELSE LET i == CHOOSE k \in 1..Len(s) : s[k] = NL /\ \A j \in 1..(k-1) : s[j] # NL
       IN  <<SubSeq(s, 1, i-1)>> \o split(SubSeq(s, i+1, Len(s)))

\* JSON.parse(line) succeeds and message.message == 'HTTP server listening'
isSentinel(line) == line = SentinelText

\* The forEach of handler: some non-empty piece of the chunk is the sentinel.
chunkHasSentinel(chunk) ==
  \E i \in 1..Len(split(chunk)) :
     /\ Len(split(chunk)[i]) # 0
     /\ isSentinel(split(chunk)[i])

\* ------------------------------------------------------ hardware profile
\* AppleSiliconGeneration and AppleSiliconVariant
Generations == {"M1", "M2", "M3", "M4", "unknown"}
Variants == {"base", "Pro", "Max", "Ultra", "unknown"}

\* getAppleSiliconInfo: a generation with its variant, or unknown for both
Chips ==
  {c \in [generation : Generations, variant : Variants] :
      (c.generation = "unknown") <=> (c.variant = "unknown")}

\* platform() and arch()
Platforms == {"darwin", "linux"}
Archs == {"arm64", "x64"}
\* execSync('sysctl -n machdep.cpu.brand_string'): it returns text, or throws
BrandProbes == {"ok", "throws"}
\* execSync('sysctl -n hw.perflevelN.physicalcpu'): it returns a number's text,
\* or throws, or returns text that parseInt makes NaN
CoreProbes == {"ok", "throws", "NaN"}

\* What the operating system reports to detectHardware: the platform and the
\* architecture, what becomes of the sysctl probes, totalmem() rounded to GB,
\* the chip the brand string names (unknown for both when it names none), the
\* core counts sysctl prints, and cpus().length.
host(platform, arch, brand, cores, g, chip, perf, eff) ==
  [ platform |-> platform, arch |-> arch, brand |-> brand, cores |-> cores,
    totalMemoryGB |-> g, generation |-> chip.generation, variant |-> chip.variant,
    performanceCores |-> perf, efficiencyCores |-> eff, cpuCores |-> perf + eff ]

\* the Apple Silicon machines whose probes answer
Machines ==
  { host("darwin", "arm64", "ok", "ok", g, chip, c, MaxEffCores) :
      g \in 0..MaxMemoryGB, c \in 0..MaxPerfCores, chip \in Chips }

\* hosts of any platform, with probes that answer or not
Hosts ==
  { host(pl, ar, b, k, g, chip, c, e) :
      pl \in Platforms, ar \in Archs, b \in BrandProbes, k \in CoreProbes,
      g \in {0, MaxMemoryGB}, chip \in Chips,
      c \in 0..MaxEffCores, e \in 0..MaxEffCores }

\* GPU_CORES[generation]?.[variant] || 0
gpuCoresOf(generation, variant) ==
  IF generation = "unknown" \/ variant = "unknown" THEN 0
  ELSE LET row == CASE generation = "M1" -> <<8, 16, 32, 64>>
                    [] generation = "M2" -> <<10, 19, 38, 76>>
                    [] generation = "M3" -> <<10, 18, 40, 80>>
                    [] generation = "M4" -> <<10, 20, 40, 80>>
       IN  CASE variant = "base" -> row[1] [] variant = "Pro" -> row[2]
             [] variant = "Max" -> row[3] [] variant = "Ultra" -> row[4]

\* ---- IEEE 754 double arithmetic of totalMemoryGB * 0.6
\* A natural number is a sequence of limbs in base 2^16, least significant first.
Base == 65536
\* The double 0.6 is 0x13333333333333 * 2^-53: its 53-bit significand, in limbs.
Point6 == <<13107, 13107, 13107, 19>>
SignificandBits == 53

RECURSIVE mulLimbs(_, _, _)
mulLimbs(m, limbs, carry) ==
  IF limbs = <<>> THEN (IF carry = 0 THEN <<>> ELSE <<carry>>)
  ELSE LET t == m * Head(limbs) + carry
       IN  <<t % Base>> \o mulLimbs(m, Tail(limbs), t \div Base)

RECURSIVE addLimbs(_, _)
addLimbs(limbs, v) ==
  IF v = 0 THEN limbs
  ELSE IF limbs = <<>> THEN <<v>>
  ELSE LET t == Head(limbs) + v
       IN  <<t % Base>> \o addLimbs(Tail(limbs), t \div Base)

RECURSIVE bitLength(_)
bitLength(x) == IF x = 0 THEN 0 ELSE 1 + bitLength(x \div 2)

RECURSIVE pow2(_)
pow2(n) == IF n = 0 THEN 1 ELSE 2 * pow2(n - 1)

\* The product of the integer m and the double 0.6 as the hardware rounds it
\* (to nearest, ties to even): the limbs of the double's value times 2^53.  The
\* bits rounded away are fewer than 16 for every m below 2^11.
timesPoint6(m) ==
  LET X == mulLimbs(m, Point6, 0)
      L == 16 * (Len(X) - 1) + bitLength(X[Len(X)])
      s == L - SignificandBits
      low == X[1] % pow2(s)
      up == \/ 2 * low > pow2(s)
            \/ 2 * low = pow2(s) /\ (X[1] \div pow2(s)) % 2 = 1
  IN  IF m = 0 THEN <<>>
      ELSE IF s <= 0 THEN X
      ELSE addLimbs(<<X[1] - low>> \o Tail(X), IF up THEN pow2(s) ELSE 0)

\* Math.floor of a double given as limbs of its value times 2^53
floorOf(X) ==
  (IF Len(X) >= 4 THEN X[4] \div 32 ELSE 0) + (IF Len(X) >= 5 THEN X[5] * 2048 ELSE 0)

\* ---- calculateOptimalSettings
\* A faulty variant of gpuLayersFor, its thresholds exclusive: C16 rejects it.
gpuLayersFor_Exclusive(totalMemoryGB) ==
  IF totalMemoryGB > 128 THEN 99
  ELSE IF totalMemoryGB > 96 THEN 80
  ELSE IF totalMemoryGB > 64 THEN 60
  ELSE IF totalMemoryGB > 32 THEN 40
  ELSE IF totalMemoryGB > 16 THEN 20
  ELSE 4

gpuLayersFor(totalMemoryGB) ==
  IF totalMemoryGB >= 128 THEN 99
  ELSE IF totalMemoryGB >= 96 THEN 80
  ELSE IF totalMemoryGB >= 64 THEN 60
  ELSE IF totalMemoryGB >= 32 THEN 40
  ELSE IF totalMemoryGB >= 16 THEN 20
  ELSE 4

\* A faulty variant of cpuThreadsFor, without the floor: C18 rejects it.
cpuThreadsFor_NoFloor(performanceCores) == performanceCores - 2

\* Math.max(4, performanceCores - 2)
cpuThreadsFor(performanceCores) ==
  IF performanceCores - 2 > 4 THEN performanceCores - 2 ELSE 4

\* A faulty variant of contextSizeFor, a digit of one tier lost: C20 rejects it.
contextSizeFor_Typo(totalMemoryGB) ==
  IF totalMemoryGB >= 128 THEN 131072
  ELSE IF totalMemoryGB >= 96 THEN 6553
  ELSE IF totalMemoryGB >= 64 THEN 32768
  ELSE IF totalMemoryGB >= 32 THEN 16384
  ELSE IF totalMemoryGB >= 16 THEN 8192
  ELSE 4096

contextSizeFor(totalMemoryGB) ==
  IF totalMemoryGB >= 128 THEN 131072
  ELSE IF totalMemoryGB >= 96 THEN 65536
  ELSE IF totalMemoryGB >= 64 THEN 32768
  ELSE IF totalMemoryGB >= 32 THEN 16384
  ELSE IF totalMemoryGB >= 16 THEN 8192
  ELSE 4096

\* A faulty variant of maxModelSizeFor, Math.ceil for Math.floor: C19 rejects it.
maxModelSizeFor_Ceil(totalMemoryGB) ==
  LET X == timesPoint6(totalMemoryGB)
  IN  floorOf(X) + (IF floorOf(X) * 10 = 6 * totalMemoryGB THEN 0 ELSE 1)

\* Math.floor(totalMemoryGB * 0.6)
maxModelSizeFor(totalMemoryGB) == floorOf(timesPoint6(totalMemoryGB))

isHighEnd(variant) == variant = "Max" \/ variant = "Ultra"
isM4Generation(generation) == generation = "M4"

batchSizeFor(generation, variant) ==
  IF isHighEnd(variant) /\ isM4Generation(generation) THEN 2048
  ELSE IF isHighEnd(variant) THEN 1024
  ELSE 512

calculateOptimalSettings(totalMemoryGB, gpuCores, performanceCores, generation, variant) ==
  [ gpuLayers |-> gpuLayersFor(totalMemoryGB),
    cpuThreads |-> cpuThreadsFor(performanceCores),
    contextSize |-> contextSizeFor(totalMemoryGB),
    maxModelSizeGB |-> maxModelSizeFor(totalMemoryGB),
    batchSize |-> batchSizeFor(generation, variant) ]

\* platform() === 'darwin' && arch() === 'arm64'
isAppleSilicon(m) == m.platform = "darwin" /\ m.arch = "arm64"

\* NEURAL_CORES[generation] || 0
neuralCoresOf(generation) == IF generation = "unknown" THEN 0 ELSE 16

\* getAppleSiliconInfo() on host m
getAppleSiliconInfo(m) ==
  IF ~isAppleSilicon(m) \/ m.brand = "throws" \/ m.generation = "unknown"
  THEN [ generation |-> "unknown", variant |-> "unknown", gpuCores |-> 0,
         neuralEngineCores |-> 0 ]
  ELSE [ generation |-> m.generation, variant |-> m.variant,
         gpuCores |-> gpuCoresOf(m.generation, m.variant),
         neuralEngineCores |-> neuralCoresOf(m.generation) ]

\* a number that is not one: what parseInt makes of text without digits
NaN == -1
\* parseInt(text, 10) of what a core probe printed
parseInt(cores, printed) == IF cores = "NaN" THEN NaN ELSE printed

\* A faulty variant of orZero, the default left out: C25 rejects it.
orZero_NoDefault(x) == x

\* x || 0
orZero(x) == IF x = NaN \/ x = 0 THEN 0 ELSE x

\* getPerformanceAndEfficiencyCores() on host m
getPerformanceAndEfficiencyCores(m) ==
  IF m.platform # "darwin"
  THEN [ performance |-> m.cpuCores, efficiency |-> 0 ]
  ELSE IF m.cores = "throws"
       THEN [ performance |-> m.cpuCores \div 2, efficiency |-> m.cpuCores \div 2 ]
       ELSE [ performance |-> orZero(parseInt(m.cores, m.performanceCores)),
              efficiency |-> orZero(parseInt(m.cores, m.efficiencyCores)) ]

\* detectHardware() on host m: the profile, with its recommended settings
\* (availableMemoryGB, a rounded counter like totalMemoryGB, is left out)
detectHardware(m) ==
  LET chip == getAppleSiliconInfo(m)
      cores == getPerformanceAndEfficiencyCores(m)
  IN  [ cpuModel |-> IF m.cpuCores = 0 THEN "Unknown" ELSE "cpu",
        cpuCores |-> m.cpuCores,
        performanceCores |-> cores.performance,
        efficiencyCores |-> cores.efficiency,
        isAppleSilicon |-> isAppleSilicon(m),
        generation |-> chip.generation, variant |-> chip.variant,
        gpuCores |-> chip.gpuCores,
        neuralEngineCores |-> chip.neuralEngineCores,
        totalMemoryGB |-> m.totalMemoryGB,
        unifiedMemory |-> isAppleSilicon(m),
        recommended |-> calculateOptimalSettings(m.totalMemoryGB, chip.gpuCores,
                           cores.performance, chip.generation, chip.variant) ]

\* private profile: HardwareProfile | null = null
NoProfile == [ totalMemoryGB |-> None ]

\* the machine the supervisor runs on, in the behaviours of Spec
ThisMachine ==
  host("darwin", "arm64", "ok", "ok", 128,
       [generation |-> "M4", variant |-> "Max"], 10, 4)

\* ------------------------------------------------- the engine command line
\* an optional number that was not given, and an optional string or boolean
\* that was not given
Undefined == -2
Absent == "undefined"

\* the values a caller gives an override: none, zero, a positive number
Overrides == {Undefined, 0, 512}

\* LaunchOptions, the id apart
LaunchRequests ==
  [ modelPath : {"model.gguf"},
    multimodal : {Absent, "false", "true"},
    mmprojPath : {Absent, "", "mmproj.gguf"},
    port : {Absent, "", "9090"},
    contextSize : Overrides, gpuLayers : Overrides, threads : Overrides,
    batchSize : Overrides ]

getOptimalContextSize(prof) == prof.recommended.contextSize
getOptimalGpuLayers(prof) == prof.recommended.gpuLayers
getOptimalThreads(prof) == prof.recommended.cpuThreads
getOptimalBatchSize(prof) == prof.recommended.batchSize

\* A faulty variant of nullish, || for ??: C21 rejects it.
nullish_Or(x, d) == IF x = Undefined \/ x = 0 THEN d ELSE x

\* x ?? d
nullish(x, d) == IF x = Undefined THEN d ELSE x

\* a string in a condition: undefined and '' are false
truthy(text) == text # Absent /\ text # ""

\* A faulty variant of wantsProjector, the path alone deciding: C22 rejects it.
wantsProjector_PathOnly(o) == truthy(o.mmprojPath)

\* multimodal && mmprojPath, multimodal being false when not given
wantsProjector(o) == o.multimodal = "true" /\ truthy(o.mmprojPath)

\* the args launchServer passes to execFile for options o, under profile prof
args(o, prof) ==
  << "-m", o.modelPath,
     "-c", ToString(nullish(o.contextSize, getOptimalContextSize(prof))),
     "-ngl", ToString(nullish(o.gpuLayers, getOptimalGpuLayers(prof))),
     "-t", ToString(nullish(o.threads, getOptimalThreads(prof))),
     "-b", ToString(nullish(o.batchSize, getOptimalBatchSize(prof))) >>
  \o (IF wantsProjector(o) THEN <<"--mmproj", o.mmprojPath>> ELSE <<>>)
  \o (IF truthy(o.port) THEN <<"--port", o.port>> ELSE <<>>)

\* --------------------------------------------------------------- queries
\* the port of the URLs of encode and getModelParameters
QueryPort == "8080"

\* token sequences of at most MaxTokens tokens
TokenSeqs == UNION {[1..n -> 1..MaxTokens] : n \in 0..MaxTokens}

\* What becomes of the request to /tokenize: fetch rejects, or the body is not
\* JSON, or it is a JSON object, with a tokens member or without one.
TokenizeResponses ==
  { [kind |-> k, hasTokens |-> FALSE, tokens |-> <<>>] :
       k \in {"networkError", "notJSON", "json"} }
  \cup { [kind |-> "json", hasTokens |-> TRUE, tokens |-> t] : t \in TokenSeqs }

\* what becomes of the request to /model.json
ModelResponses ==
  { [kind |-> k, n_ctx |-> 4096, model |-> "model.gguf"] :
       k \in {"networkError", "notJSON", "json"} }

\* await fetch(...) and await res.json() complete: otherwise the method rejects
parsed(r) == r.kind = "json"

\* A faulty variant of tokenized, failures turned into no tokens: C27 rejects it.
tokenized_Swallows(r) ==
  [ status |-> "fulfilled", defined |-> TRUE,
    tokens |-> IF parsed(r) THEN r.tokens ELSE <<>> ]

\* the promise of encode() when the request ends as r: data.tokens
tokenized(r) ==
  IF parsed(r)
  THEN [ status |-> "fulfilled", defined |-> r.hasTokens, tokens |-> r.tokens ]
  ELSE [ status |-> "rejected", defined |-> FALSE, tokens |-> <<>> ]

\* the promise of getModelParameters() when the request ends as r
modelParameters(r) ==
  IF parsed(r)
  THEN [ status |-> "fulfilled", contextSize |-> r.n_ctx, modelPath |-> r.model ]
  ELSE [ status |-> "rejected", contextSize |-> None, modelPath |-> "" ]

\* ---------------------------------------------------------------- state
VARIABLES
  os,              \* the machine, as the operating system reports it
  profile,         \* HardwareManager.profile: the cached profile, or NoProfile
  snapshots,       \* the profile objects detectHardware has returned, in order:
                   \* a caller may hold any of them
  exec,            \* the options of a launchServer call with the args it gave
                   \* execFile, or NoExec
  query,           \* history: the query method or catalogue function called in
                   \* the step just taken, with what it was answered and what
                   \* it returned
  launchOptions,   \* Map<string, LaunchOptions>: id -> options, None when absent
  processes,       \* Map<string, ChildProcess>:  id -> pid,     None when absent
  loading,         \* Map<string, Promise>:       id -> promise, None when absent
  proc,            \* the child processes ever started, by pid, each with the
                   \* promise and the stdout handler its launchServer call made
  nextPid,         \* the pid of the next child
  cleaned,         \* history: cleanupProcess(id) ended the session of id, and no
                   \* caller has launched id since
  last             \* history: the event-loop step just taken

vars ==
  <<os, profile, snapshots, exec, query, launchOptions, processes, loading, proc,
    nextPid, cleaned, last>>

NoExec == [ args |-> <<>> ]
NoQuery == [ op |-> "none" ]

Unused ==
  [ id |-> None, options |-> None, state |-> "unused", exit |-> "none",
    out |-> <<>>, listening |-> FALSE, promise |-> "none",
    killed |-> "no", auto |-> FALSE,
    partial |-> <<>>, sentinelLine |-> FALSE ]

\* A step of the event loop, as the history variable records it: the method or
\* listener that ran, the session id and the child it was about (for
\* launchServer, the promise it returned), the child it started and, for a
\* 'close' event, its (code, signal), whether the child was the one registered
\* under its id, and what became of the child's promise.
step(op, id, p, new, cause, reg, outcome) ==
  [ op |-> op, id |-> id, p |-> p, new |-> new, cause |-> cause, reg |-> reg,
    outcome |-> outcome ]
NoStep == step("io", None, None, None, "none", FALSE, "none")

\* the supervisor after construction
Idle ==
  /\ launchOptions = [i \in Ids |-> None]
  /\ processes = [i \in Ids |-> None]
  /\ loading = [i \in Ids |-> None]
  /\ proc = [p \in Pids |-> Unused]
  /\ nextPid = 1
  /\ cleaned = [i \in Ids |-> FALSE]
  /\ last = NoStep

\* the HardwareManager after construction, and no call made yet
Fresh == profile = NoProfile /\ snapshots = <<>> /\ exec = NoExec /\ query = NoQuery

Init == os = ThisMachine /\ Fresh /\ Idle

\* ------------------------------------------------------- HardwareManager
\* the value of getProfile(): the cached profile, detected when there is none
profileNow == IF profile = NoProfile THEN detectHardware(os) ELSE profile

\* this.profile = detectHardware(): a new object each time
detected == profile' = detectHardware(os) /\ snapshots' = Append(snapshots, profile')

\* the body of getProfile(): if (!this.profile) this.profile = detectHardware()
cached == IF profile = NoProfile THEN detected ELSE UNCHANGED <<profile, snapshots>>

getProfile ==
  /\ cached
  /\ UNCHANGED <<os, exec, query, launchOptions, processes, loading, proc, nextPid,
                 cleaned, last>>

\* A faulty variant of refresh, overwriting the cached object in place: C23
\* rejects it.
refresh_InPlace ==
  /\ Len(snapshots) < MaxDetections
  /\ profile' = detectHardware(os)
  /\ snapshots' = IF snapshots = <<>> THEN <<profile'>>
                  ELSE [snapshots EXCEPT ![Len(snapshots)] = profile']
  /\ UNCHANGED <<os, exec, query, launchOptions, processes, loading, proc, nextPid,
                 cleaned, last>>

refresh ==
  /\ Len(snapshots) < MaxDetections
  /\ detected
  /\ UNCHANGED <<os, exec, query, launchOptions, processes, loading, proc, nextPid,
                 cleaned, last>>

\* The sysctl core probes start or stop answering (the environment's step).
probesChange(k) ==
  /\ k # os.cores
  /\ os' = [os EXCEPT !.cores = k]
  /\ UNCHANGED <<profile, snapshots, exec, query, launchOptions, processes, loading,
                 proc, nextPid, cleaned, last>>

\* ------------------------------------------------------------- predicates
Alive(p) == proc[p].state = "running"
\* started, and its 'close' event is still to come
Open(p) == proc[p].state \in {"running", "exited"}
Registered(p) == Open(p) /\ processes[proc[p].id] = p
\* the sentinel was observed by p's own handler
Ready(p) == proc[p].promise = "resolved"
\* a launch in flight: started, sentinel not seen, not exited (and not cancelled
\* by cleanupProcess or close)
InFlight(p) == Alive(p) /\ proc[p].promise = "pending" /\ proc[p].killed = "no"
InFlightOf(id) == {p \in Pids : InFlight(p) /\ proc[p].id = id}

\* --------------------------------------------------------------- launching
\* execFile(llamaServer, args, callback) with the promise and the handler of
\* launchServer and handleProcess's registration: the child as it is when the
\* synchronous part of launchServer returns.  A spawn the OS refuses (ok = FALSE)
\* emits 'error' on the next tick, before any other event: the callback has
\* rejected the promise, and the 'close' event is still to come.
spawned(id, o, ok) ==
  [ id |-> id, options |-> o,
    state |-> IF ok THEN "running" ELSE "exited",
    exit |-> IF ok THEN "none" ELSE "ENOENT",
    out |-> IF ok THEN Script ELSE <<>>,
    listening |-> TRUE,
    promise |-> IF ok THEN "pending" ELSE "rejected",
    killed |-> "no", auto |-> FALSE,
    partial |-> <<>>, sentinelLine |-> FALSE ]

\* the bounds of the model leave room for one more child
Room == nextPid <= MaxProcs /\ Cardinality({p \in Pids : Open(p)}) < MaxLive

\* A faulty variant of coalesced, joining only a launch that is pending: C34
\* rejects it.
coalesced_OnlyPending(id) ==
  loading[id] # None /\ proc[loading[id]].promise = "pending"

\* if (this.loading.has(id)) return this.loading.get(id)
coalesced(id) == loading[id] # None

\* launchServer(options), called by the application
launchServer(id, o, ok) ==
  /\ cleaned' = [cleaned EXCEPT ![id] = FALSE]
  /\ query' = NoQuery
  /\ UNCHANGED <<os, exec>>
  /\ IF coalesced(id)
     THEN /\ last' = step("launch", id, loading[id], None, "none", FALSE, "none")
          /\ UNCHANGED <<profile, snapshots, launchOptions, processes, loading, proc,
                         nextPid>>
     ELSE /\ Room
          /\ cached
          /\ proc' = [proc EXCEPT ![nextPid] = spawned(id, o, ok)]
          /\ processes' = [processes EXCEPT ![id] = nextPid]
          /\ loading' = [loading EXCEPT ![id] = nextPid]
          /\ nextPid' = nextPid + 1
          /\ last' = step("launch", id, nextPid, nextPid, "none", FALSE, "none")
          /\ UNCHANGED launchOptions

\* ------------------------------------------------------------ stdout data
\* The history of the lines a running child has written in full: the text since
\* the last terminator, and whether a complete line was the sentinel record.
RECURSIVE receive(_, _)
receive(h, chunk) ==
  IF chunk = <<>> THEN h
  ELSE IF Head(chunk) = NL
       THEN receive([ partial |-> <<>>,
                      sentinelLine |-> h.sentinelLine \/ isSentinel(h.partial) ],
                    Tail(chunk))
       ELSE receive([ partial |-> Append(h.partial, Head(chunk)),
                      sentinelLine |-> h.sentinelLine ], Tail(chunk))

\* A 'data' event of p's stdout carrying the next k pieces of its output: the
\* handler of launchServer, when it is still subscribed.
handler(p, k) ==
  LET chunk == SubSeq(proc[p].out, 1, k)
      hit == proc[p].listening /\ chunkHasSentinel(chunk)
      h == receive([partial |-> proc[p].partial, sentinelLine |-> proc[p].sentinelLine],
                   chunk)
  IN  /\ Alive(p)
      /\ k \in 1..Len(proc[p].out)
      /\ proc' = [proc EXCEPT
            ![p].out = SubSeq(proc[p].out, k+1, Len(proc[p].out)),
            ![p].listening = IF hit THEN FALSE ELSE @,
            ![p].promise = IF hit /\ @ = "pending" THEN "resolved" ELSE @,
            ![p].partial = h.partial,
            ![p].sentinelLine = h.sentinelLine]
      /\ launchOptions' = IF hit
                          THEN [launchOptions EXCEPT ![proc[p].id] = proc[p].options]
                          ELSE launchOptions
      /\ last' = NoStep
      /\ query' = NoQuery
      /\ UNCHANGED <<os, profile, snapshots, exec, processes, loading, nextPid, cleaned>>

\* ------------------------------------------------------------ termination
\* The child has terminated and its stdout has ended: what it had not written is
\* never written, and the 'close' event is due.  Until this step process.kill()
\* finds a child to signal.
exit(p) ==
  /\ Alive(p)
  /\ proc' = [proc EXCEPT ![p].state = "exited", ![p].out = <<>>,
                          ![p].listening = FALSE, ![p].partial = <<>>,
                          ![p].sentinelLine = FALSE]
  /\ last' = NoStep
  /\ query' = NoQuery
  /\ UNCHANGED <<os, profile, snapshots, exec, launchOptions, processes, loading,
                 nextPid, cleaned>>

\* The (code, signal) a 'close' event can carry: an exit code, a fault, a
\* SIGTERM (the supervisor's or anyone's), or the spawn error of a child that
\* never ran.
CloseCauses == {"code0", "code1", "SIGSEGV", "SIGTERM", "ENOENT"}
closesWith(p, cause) ==
  IF proc[p].exit = "ENOENT" THEN cause = "ENOENT" ELSE cause # "ENOENT"

\* execFile's callback gets an error unless the child ended with code 0 and no signal
callbackErr(cause) == cause # "code0"

\* A faulty variant of shouldRestart, restarting whenever options are retained:
\* C14 rejects it.
shouldRestart_Always(cause, id) == launchOptions[id] # None

\* A faulty variant of shouldRestart, restarting after any signal: C5 rejects it.
shouldRestart_AnySignal(cause, id) ==
  cause \in {"SIGSEGV", "SIGTERM"} /\ launchOptions[id] # None

\* signal === 'SIGSEGV' && this.launchOptions.get(id)
shouldRestart(cause, id) == cause = "SIGSEGV" /\ launchOptions[id] # None

\* the promise of p once execFile's callback has run: reject(err) settles a
\* promise that is still pending
settled(p, cause) ==
  IF callbackErr(cause) /\ proc[p].promise = "pending"
  THEN "rejected" ELSE proc[p].promise

\* a child whose 'close' event has been handled
Closed == [Unused EXCEPT !.state = "closed"]

\* this.launchServer(this.launchOptions.get(id)!): the child an automatic
\* restart starts (auto is history: the close listener started it, no caller)
restarted(id, ok) == [spawned(id, launchOptions[id], ok) EXCEPT !.auto = TRUE]

\* The 'close' event of p, (code, signal) being cause: execFile's callback, then
\* the listener of handleProcess, with the launchServer call it makes.
onClose(p, cause, ok) ==
  LET id == proc[p].id
      restart == shouldRestart(cause, id)
  IN  /\ proc[p].state = "exited"
      /\ closesWith(p, cause)
      /\ IF restart
         THEN /\ nextPid <= MaxProcs
              /\ cached
              /\ proc' = [proc EXCEPT ![p] = Closed, ![nextPid] = restarted(id, ok)]
              /\ processes' = [processes EXCEPT ![id] = nextPid]
              /\ loading' = [loading EXCEPT ![id] = nextPid]
              /\ nextPid' = nextPid + 1
         ELSE /\ ok
              /\ proc' = [proc EXCEPT ![p] = Closed]
              /\ processes' = [processes EXCEPT ![id] = None]
              /\ loading' = [loading EXCEPT ![id] = None]
              /\ UNCHANGED <<profile, snapshots, nextPid>>
      /\ last' = step("close", id, p, IF restart THEN nextPid ELSE None,
                      cause, Registered(p), settled(p, cause))
      /\ query' = NoQuery
      /\ UNCHANGED <<os, exec, launchOptions, cleaned>>

\* ----------------------------------------------------------------- cleanup
\* process.kill(): true when the signal was delivered, false when the child
\* has already terminated
kill(p) == Alive(p)

\* The child after process.kill() and, in cleanupProcess, when that returned
\* false, process.kill('SIGKILL'): a child that has terminated gets neither
\* signal.  killed is history: who delivered SIGTERM to the child.
signalled(p, by) == IF kill(p) THEN [proc[p] EXCEPT !.killed = by] ELSE proc[p]

\* A faulty variant of cleanupProcess, this.loading.delete(id) left out: C9
\* rejects it.
cleanupProcess_KeepsLoading(id) ==
  LET p == processes[id]
  IN  /\ IF p # None
         THEN /\ proc' = [proc EXCEPT ![p] = signalled(p, "cleanup")]
              /\ processes' = [processes EXCEPT ![id] = None]
              /\ cleaned' = [cleaned EXCEPT ![id] = TRUE]
              /\ last' = step("cleanup", id, p, None, "none", FALSE, "none")
              /\ UNCHANGED loading
         ELSE /\ last' = step("cleanup", None, None, None, "none", FALSE, "none")
              /\ UNCHANGED <<proc, processes, loading, cleaned>>
      /\ query' = NoQuery
      /\ UNCHANGED <<os, profile, snapshots, exec, launchOptions, nextPid>>

\* A faulty variant of cleanupProcess, forgetting the retained options of an id
\* without an entry: C12 rejects it.
cleanupProcess_ForgetsOptions(id) ==
  LET p == processes[id]
  IN  /\ IF p # None
         THEN /\ proc' = [proc EXCEPT ![p] = signalled(p, "cleanup")]
              /\ processes' = [processes EXCEPT ![id] = None]
              /\ loading' = [loading EXCEPT ![id] = None]
              /\ cleaned' = [cleaned EXCEPT ![id] = TRUE]
              /\ last' = step("cleanup", id, p, None, "none", FALSE, "none")
              /\ UNCHANGED launchOptions
         ELSE /\ last' = step("cleanup", None, None, None, "none", FALSE, "none")
              /\ launchOptions' = [launchOptions EXCEPT ![id] = None]
              /\ UNCHANGED <<proc, processes, loading, cleaned>>
      /\ query' = NoQuery
      /\ UNCHANGED <<os, profile, snapshots, exec, nextPid>>

\* A faulty variant of cleanupProcess, clearing loading for every id: C36
\* rejects it.
cleanupProcess_ClearsLoading(id) ==
  LET p == processes[id]
  IN  /\ IF p # None
         THEN /\ proc' = [proc EXCEPT ![p] = signalled(p, "cleanup")]
              /\ processes' = [processes EXCEPT ![id] = None]
              /\ loading' = [i \in Ids |-> None]
              /\ cleaned' = [cleaned EXCEPT ![id] = TRUE]
              /\ last' = step("cleanup", id, p, None, "none", FALSE, "none")
         ELSE /\ last' = step("cleanup", None, None, None, "none", FALSE, "none")
              /\ UNCHANGED <<proc, processes, loading, cleaned>>
      /\ query' = NoQuery
      /\ UNCHANGED <<os, profile, snapshots, exec, launchOptions, nextPid>>

cleanupProcess(id) ==
  LET p == processes[id]
  IN  /\ IF p # None
         THEN /\ proc' = [proc EXCEPT ![p] = signalled(p, "cleanup")]
              /\ processes' = [processes EXCEPT ![id] = None]
              /\ loading' = [loading EXCEPT ![id] = None]
              /\ cleaned' = [cleaned EXCEPT ![id] = TRUE]
              /\ last' = step("cleanup", id, p, None, "none", FALSE, "none")
         ELSE /\ last' = step("cleanup", None, None, None, "none", FALSE, "none")
              /\ UNCHANGED <<proc, processes, loading, cleaned>>
      /\ query' = NoQuery
      /\ UNCHANGED <<os, profile, snapshots, exec, launchOptions, nextPid>>

\* A faulty variant of close, this.loading.clear() left out: C33 rejects it.
close_KeepsLoading ==
  /\ proc' = [p \in Pids |-> IF Registered(p) THEN signalled(p, "close") ELSE proc[p]]
  /\ processes' = [i \in Ids |-> None]
  /\ last' = step("closeAll", None, None, None, "none", FALSE, "none")
  /\ query' = NoQuery
  /\ UNCHANGED <<os, profile, snapshots, exec, launchOptions, loading, nextPid, cleaned>>

close ==
  /\ proc' = [p \in Pids |-> IF Registered(p) THEN signalled(p, "close") ELSE proc[p]]
  /\ processes' = [i \in Ids |-> None]
  /\ loading' = [i \in Ids |-> None]
  /\ last' = step("closeAll", None, None, None, "none", FALSE, "none")
  /\ query' = NoQuery
  /\ UNCHANGED <<os, profile, snapshots, exec, launchOptions, nextPid, cleaned>>

\* --------------------------------------------------------------- behaviour
Next ==
  \/ \E id \in Ids, o \in Options, ok \in BOOLEAN : launchServer(id, o, ok)
  \/ \E p \in Pids, k \in 1..Len(Script) : handler(p, k)
  \/ \E p \in Pids : exit(p)
  \/ \E p \in Pids, cause \in CloseCauses, ok \in BOOLEAN : onClose(p, cause, ok)
  \/ \E id \in Ids : cleanupProcess(id)
  \/ close

Spec == Init /\ [][Next]_vars

\* The event loop runs every listener whose event is due.  Nothing obliges a
\* child to terminate: exit has no fairness.
FairSpec ==
  /\ Spec
  /\ WF_vars(\E p \in Pids, k \in 1..Len(Script) : handler(p, k))
  /\ WF_vars(\E p \in Pids, cause \in CloseCauses, ok \in BOOLEAN : onClose(p, cause, ok))

\* The HardwareManager by itself, on any machine.
HardwareInit == os \in Machines /\ Fresh /\ Idle
HardwareNext == getProfile \/ refresh
HardwareSpec == HardwareInit /\ [][HardwareNext]_vars

\* The HardwareManager on any host, with probes that come and go.
ProbeInit == os \in Hosts /\ Fresh /\ Idle
ProbeNext == getProfile \/ refresh \/ \E k \in CoreProbes : probesChange(k)
ProbeSpec == ProbeInit /\ [][ProbeNext]_vars

\* ------------------------------------------- launching, option by option
\* launchServer(options) as far as its execFile call, for the options in full:
\* the effective configuration and the command line of the engine.  The one
\* engine of LaunchSpec is launched once.
launchWith(o) ==
  /\ exec = NoExec
  /\ cached
  /\ exec' = [ options |-> o, args |-> args(o, profile') ]
  /\ query' = NoQuery
  /\ UNCHANGED <<os, launchOptions, processes, loading, proc, nextPid, cleaned, last>>

\* encode(content), its request ending as r
encode(r) ==
  /\ query' = [ op |-> "encode", port |-> QueryPort, requests |-> 1,
                response |-> r, result |-> tokenized(r) ]
  /\ UNCHANGED <<os, profile, snapshots, exec, launchOptions, processes, loading,
                 proc, nextPid, cleaned, last>>

\* getModelParameters(), its request ending as r
getModelParameters(r) ==
  /\ query' = [ op |-> "getModelParameters", port |-> QueryPort, requests |-> 1,
                response |-> r, result |-> modelParameters(r) ]
  /\ UNCHANGED <<os, profile, snapshots, exec, launchOptions, processes, loading,
                 proc, nextPid, cleaned, last>>

\* a small machine, beside ThisMachine
SmallMachine ==
  host("darwin", "arm64", "ok", "ok", 8,
       [generation |-> "M1", variant |-> "base"], 4, 4)

\* One engine, launched with any options, and the queries made of it.
LaunchInit == os \in {ThisMachine, SmallMachine} /\ Fresh /\ Idle
LaunchNext ==
  \/ \E o \in LaunchRequests : launchWith(o)
  \/ \E r \in TokenizeResponses : encode(r)
  \/ \E r \in ModelResponses : getModelParameters(r)
LaunchSpec == LaunchInit /\ [][LaunchNext]_vars

\* ------------------------------------------------------------ memoryUsage
\* A faulty variant of managedPids, every child not yet closed: C26 rejects it.
managedPids_AllChildren == {p \in Pids : Open(p) /\ proc[p].exit # "ENOENT"}

\* Array.from(this.processes.values()).map((p) => p.pid).filter((p) => p): a
\* child whose spawn failed has no pid
managedPids ==
  {p \in Pids : (\E id \in Ids : processes[id] = p) /\ proc[p].exit # "ENOENT"}

\* Object.values(stats).reduce((acc, curr) => acc + curr.memory, 0)
RECURSIVE reduce(_, _)
reduce(stats, pids) ==
  IF pids = {} THEN 0
  ELSE LET p == CHOOSE x \in pids : TRUE
       IN  stats[p] + reduce(stats, pids \ {p})

\* what pidusage can call back with: the resident memory of each of some pids
Stats == UNION {[S -> 1..MaxRss] : S \in SUBSET Pids}

\* memoryUsage(): pidusage calls back with an error, or with the resident
\* memory of each pid it was given.
memoryUsage(err, stats) ==
  /\ stats \in [managedPids -> 1..MaxRss]
  /\ query' = [ op |-> "memoryUsage", err |-> err, pids |-> managedPids,
                stats |-> IF err THEN <<>> ELSE stats,
                result |-> [ status |-> "fulfilled",
                             value |-> IF err THEN 0
                                       ELSE reduce(stats, DOMAIN stats) ] ]
  /\ UNCHANGED <<os, profile, snapshots, exec, launchOptions, processes, loading,
                 proc, nextPid, cleaned, last>>

\* The supervisor launching, losing and cleaning up children, and sampled.
UsageNext ==
  \/ \E id \in Ids, o \in Options, ok \in BOOLEAN : launchServer(id, o, ok)
  \/ \E p \in Pids : exit(p)
  \/ \E id \in Ids : cleanupProcess(id)
  \/ \E err \in BOOLEAN, stats \in Stats : memoryUsage(err, stats)
UsageSpec == Init /\ [][UsageNext]_vars

\* ------------------------------------------------------ the model catalogue
\* MODELS: the name, minMemoryGB and recommended of each entry, in order
model(name, minMemoryGB, recommended) ==
  [ name |-> name, minMemoryGB |-> minMemoryGB, recommended |-> recommended ]
MODELS ==
  << model("Llama 3.3 70B Instruct", 48, TRUE),
     model("Qwen 2.5 72B Instruct", 48, FALSE),
     model("DeepSeek V3 Lite 70B", 48, FALSE),
     model("Qwen 2.5 Coder 32B Instruct", 24, TRUE),
     model("Command R+ 35B", 24, FALSE),
     model("Llama 3.2 8B Instruct", 8, TRUE),
     model("Qwen 2.5 14B Instruct", 12, FALSE),
     model("Gemma 2 9B Instruct", 8, FALSE),
     model("Mistral Nemo 12B Instruct", 10, FALSE),
     model("Llama 3.2 3B Instruct", 4, FALSE),
     model("Qwen 2.5 7B Instruct", 8, FALSE),
     model("Llama 3.2 Vision 11B", 12, FALSE),
     model("Qwen 2.5 VL 7B", 10, FALSE),
     model("Qwen 2.5 Coder 7B Instruct", 8, FALSE),
     model("DeepSeek Coder V2 16B", 12, FALSE),
     model("Mistral 7B Instruct v0.3", 8, FALSE) >>

\* model.minMemoryGB || 8
minRequired(m) == IF m.minMemoryGB = 0 THEN 8 ELSE m.minMemoryGB

\* minRequired <= availableMemoryGB * 0.6, the product being a double: a whole
\* number is at most a double exactly when it is at most its floor
fits(m, availableMemoryGB) ==
  minRequired(m) <= floorOf(timesPoint6(availableMemoryGB))

\* MODELS.filter(...): the entries that fit, in the order of MODELS
modelsForMemory(availableMemoryGB) ==
  SelectSeq(MODELS, LAMBDA m : fits(m, availableMemoryGB))

\* MODELS.find((m) => m.name === name)!
find(name) ==
  MODELS[CHOOSE i \in 1..Len(MODELS) :
            MODELS[i].name = name /\ \A j \in 1..(i-1) : MODELS[j].name # name]

defaultModel(availableMemoryGB) ==
  IF availableMemoryGB >= 64 THEN find("Llama 3.3 70B Instruct")
  ELSE IF availableMemoryGB >= 32 THEN find("Qwen 2.5 Coder 32B Instruct")
  ELSE find("Llama 3.2 8B Instruct")

\* getModelsForMemory(availableMemoryGB), called by the application
getModelsForMemory(availableMemoryGB) ==
  /\ query' = [ op |-> "getModelsForMemory", memory |-> availableMemoryGB,
                models |-> modelsForMemory(availableMemoryGB) ]
  /\ UNCHANGED <<os, profile, snapshots, exec, launchOptions, processes, loading,
                 proc, nextPid, cleaned, last>>

\* getDefaultModel(availableMemoryGB), called by the application
getDefaultModel(availableMemoryGB) ==
  /\ query' = [ op |-> "getDefaultModel", memory |-> availableMemoryGB,
                model |-> defaultModel(availableMemoryGB) ]
  /\ UNCHANGED <<os, profile, snapshots, exec, launchOptions, processes, loading,
                 proc, nextPid, cleaned, last>>

\* The catalogue, asked for any memory size.
CatalogueNext ==
  \/ \E m \in 0..MaxMemoryGB : getModelsForMemory(m)
  \/ \E m \in 0..MaxMemoryGB : getDefaultModel(m)
CatalogueSpec == Init /\ [][CatalogueNext]_vars

\* ------------------------------------------------------------------ claims

\* C1: a launchServer call for an id that has a launch in flight starts no
\* second process and returns the promise of the launch in flight.
C1_Coalesced ==
  (last.op = "launch" /\ InFlightOf(last.id) \ {last.new} # {})
     => (last.new = None /\ last.p \in InFlightOf(last.id))

\* C2: the promise of a launch is resolved only once its own child has written
\* a complete line (terminator included) that is the sentinel record.
C2_ResolvedAfterSentinelLine ==
  \A p \in Pids :
     (Alive(p) /\ proc[p].promise = "resolved") => proc[p].sentinelLine

\* C3: once the 'close' event of a child has been handled, the promise of its
\* launch is not pending, whatever the exit code or signal.
C3_ExitSettles == last.op = "close" => last.outcome # "pending"

\* C4: when the registered child of a Ready session closes with SIGSEGV and
\* options are retained for its id, exactly one child is started, it is the one
\* now registered under the id, and its options are those of the child that crashed.
C4_RestartSameOptions ==
  [][ \A p \in Pids, ok \in BOOLEAN :
        ( /\ Registered(p) /\ Ready(p)
          /\ launchOptions[proc[p].id] # None
          /\ onClose(p, "SIGSEGV", ok) )
        => ( /\ nextPid' = nextPid + 1
             /\ processes'[proc[p].id] = nextPid
             /\ loading'[proc[p].id] = nextPid
             /\ proc'[nextPid].id = proc[p].id
             /\ proc'[nextPid].options = proc[p].options ) ]_vars

\* C5: when the registered child of a Ready session closes with anything but
\* SIGSEGV, no child is started and neither map keeps an entry for its id.
C5_NoRestartOtherCause ==
  (last.op = "close" /\ last.reg /\ last.outcome = "resolved" /\ last.cause # "SIGSEGV")
     => (last.new = None /\ processes[last.id] = None /\ loading[last.id] = None)

C5_Witness ==
  /\ last.op = "close" /\ last.reg /\ last.outcome = "resolved"
  /\ last.cause = "SIGTERM" /\ last.new = None

\* C6: a child that closes without its own handler having seen the sentinel
\* is not restarted: no child is started, the session has no entry, and the
\* promise is rejected.
C6_NoRestartBeforeReady ==
  (last.op = "close" /\ last.outcome # "resolved")
     => (last.new = None /\ processes[last.id] = None /\ last.outcome = "rejected")

\* C7: after cleanupProcess(id) ended the session of id, and until a caller
\* launches id again, the session map has no entry for id (no child is started).
C7_StaysIdle == \A id \in Ids : cleaned[id] => processes[id] = None

\* C8: the promise of a launch that cleanupProcess cut in flight (it signalled
\* the child, the promise is pending) is never resolved, and is rejected once
\* the child's 'close' event has been handled.
C8_CancelledLaunchFails ==
  [][ \A p \in Pids :
        (proc[p].killed = "cleanup" /\ proc[p].promise = "pending")
        => ( /\ proc'[p].promise # "resolved"
             /\ proc'[p].state = "closed" => last'.outcome = "rejected" ) ]_vars

\* C9: when cleanupProcess(id) has found a child registered under id, neither
\* the session map nor the in-flight-launch map has an entry for id.
C9_CleanupRemoves ==
  (last.op = "cleanup" /\ last.p # None)
     => (processes[last.id] = None /\ loading[last.id] = None)

\* the forceful path: kill() found the child terminated, its launch pending
C9_Witness ==
  /\ last.op = "cleanup" /\ last.p # None
  /\ proc[last.p].state = "exited" /\ proc[last.p].promise = "pending"

\* C10: a running child that cleanupProcess has signalled is eventually no
\* longer running.
C10_EventuallyStopped ==
  \A p \in Pids :
     (Alive(p) /\ proc[p].killed = "cleanup") ~> ~Alive(p)

\* C11: once close() has run, the session map, the in-flight-launch map and the
\* retained launch options are all empty.
C11_CloseClearsAll ==
  last.op = "closeAll"
     => \A id \in Ids :
           processes[id] = None /\ loading[id] = None /\ launchOptions[id] = None

\* C12: cleanupProcess(id) for an id without an entry signals no child and
\* leaves the three maps as they are.
C12_CleanupNoEntryNoOp ==
  [][ \A id \in Ids :
        (processes[id] = None /\ cleanupProcess(id))
        => UNCHANGED <<proc, processes, loading, launchOptions>> ]_vars

\* the call found no entry while a child was running and options were retained
C12_Witness ==
  /\ last.op = "cleanup" /\ last.p = None
  /\ \E p \in Pids : Alive(p)
  /\ \E id \in Ids : launchOptions[id] # None

\* C13: while a child that an automatic restart started is Ready and registered,
\* a SIGSEGV 'close' event of it restarts it again, with the options it runs with.
C13_RestartedRestartsAgain ==
  \A p \in Pids :
     (Registered(p) /\ Ready(p) /\ proc[p].auto)
        => ( /\ shouldRestart("SIGSEGV", proc[p].id)
             /\ restarted(proc[p].id, TRUE).options = proc[p].options )

C15_SplitSentinelRecognised ==
  \A p \in Pids : (Alive(p) /\ proc[p].sentinelLine) => proc[p].promise = "resolved"

\* C16: the GPU layers and the context size of a detected profile are those of
\* the tier table for its total memory (>=128: 99 / 131072, >=96: 80 / 65536,
\* >=64: 60 / 32768, >=32: 40 / 16384, >=16: 20 / 8192, below: 4 / 4096),
\* whatever the chip and the core counts.
C16_TierTable ==
  profile # NoProfile
     => LET m == profile.totalMemoryGB
            tier == CASE m >= 128 -> <<99, 131072>>
                      [] m >= 96 /\ m < 128 -> <<80, 65536>>
                      [] m >= 64 /\ m < 96 -> <<60, 32768>>
                      [] m >= 32 /\ m < 64 -> <<40, 16384>>
                      [] m >= 16 /\ m < 32 -> <<20, 8192>>
                      [] m < 16 -> <<4, 4096>>
        IN  /\ profile.recommended.gpuLayers = tier[1]
            /\ profile.recommended.contextSize = tier[2]

\* the boundary value under the top tier
C16_Witness ==
  /\ profile # NoProfile /\ profile.totalMemoryGB = 127
  /\ profile.recommended.gpuLayers = 80 /\ profile.recommended.contextSize = 65536

\* C17: the batch size of a detected profile is that of the tier table: 512
\* below 16 GB; from 16 GB on, 2048 for the top variant of the latest
\* generation and 1024 otherwise.
C17_BatchSizeTier ==
  profile # NoProfile
     => profile.recommended.batchSize =
           (IF profile.totalMemoryGB < 16 THEN 512
            ELSE IF isHighEnd(profile.variant) /\ isM4Generation(profile.generation)
                 THEN 2048
                 ELSE 1024)

\* C18: the thread count of a detected profile is max(4, p - 2) for its
\* performance-core count p, never below 4, and 4, 4, 4, 4, 8 for 1, 2, 3, 6, 10.
C18_ThreadCount ==
  profile # NoProfile
     => LET p == profile.performanceCores
            t == profile.recommended.cpuThreads
        IN  /\ t = (IF p - 2 >= 4 THEN p - 2 ELSE 4)
            /\ t >= 4
            /\ p \in {1, 2, 3, 6} => t = 4
            /\ p = 10 => t = 8

C18_Witness ==
  /\ profile # NoProfile /\ profile.performanceCores = 10
  /\ profile.recommended.cpuThreads = 8

\* C19: the maximum model size of a detected profile is the integer quotient
\* of 6 * m by 10, m being its total memory in GB.
C19_MaxModelSize ==
  profile # NoProfile
     => profile.recommended.maxModelSizeGB = (6 * profile.totalMemoryGB) \div 10

\* a memory size whose exact product with 0.6 is an integer
C19_Witness ==
  /\ profile # NoProfile /\ profile.totalMemoryGB = 125
  /\ profile.recommended.maxModelSizeGB = 75

\* C20: on the machine of a detected profile, no recommended value for a larger
\* total memory is below the profile's.
C20_MonotoneInMemory ==
  profile # NoProfile
     => \A m2 \in profile.totalMemoryGB..MaxMemoryGB :
           LET r1 == profile.recommended
               r2 == detectHardware([os EXCEPT !.totalMemoryGB = m2]).recommended
           IN  /\ r1.gpuLayers <= r2.gpuLayers
               /\ r1.contextSize <= r2.contextSize
               /\ r1.maxModelSizeGB <= r2.maxModelSizeGB
               /\ r1.batchSize <= r2.batchSize
               /\ r1.cpuThreads <= r2.cpuThreads

\* a profile with tiers both under and above its own
C20_Witness ==
  /\ profile # NoProfile /\ profile.totalMemoryGB = 64 /\ profile.variant = "Max"
  /\ profile.recommended.gpuLayers = 60

\* C28: the retained options change only when a child that nobody has signalled
\* and whose launch is pending is seen to be ready, and then to the options of
\* that child, under its id: a launch that failed, was cleaned up or is still
\* pending changes none.
C28_RetainedOnlyAtReadiness ==
  [][ launchOptions' # launchOptions
        => \E p \in Pids :
              /\ Alive(p) /\ proc[p].killed = "no"
              /\ proc[p].promise = "pending" /\ proc'[p].promise = "resolved"
              /\ launchOptions' = [launchOptions EXCEPT ![proc[p].id] = proc[p].options]
    ]_vars

\* C30: a registered launch in flight whose child neither writes nor terminates
\* stays pending, registered and unsignalled through every step that is not a
\* cleanupProcess or close call.
C30_NoTimeout ==
  [][ \A p \in Pids :
        ( /\ InFlight(p) /\ Registered(p)
          /\ last'.op \notin {"cleanup", "closeAll"}
          /\ proc'[p].state = "running" /\ proc'[p].out = proc[p].out )
        => ( /\ proc'[p].promise = "pending" /\ proc'[p].killed = "no"
             /\ processes'[proc[p].id] = p /\ loading'[proc[p].id] = p ) ]_vars

\* C21: the command line carries -m, -c, -ngl, -t and -b, each once; -m is
\* followed by the model path and each numeric flag by the caller's override
\* when one was given, 0 included, and else by the value the current profile
\* recommends.
C21_CommandLineValues ==
  exec # NoExec =>
    LET o == exec.options
        a == exec.args
        r == profile.recommended
        once(flag) == Cardinality({i \in 1..Len(a) : a[i] = flag}) = 1
        value(flag) == a[(CHOOSE i \in 1..Len(a) : a[i] = flag) + 1]
        chosen(x, d) == ToString(IF x \in Nat THEN x ELSE d)
    IN  /\ \A flag \in {"-m", "-c", "-ngl", "-t", "-b"} : once(flag)
        /\ value("-m") = o.modelPath
        /\ value("-c") = chosen(o.contextSize, r.contextSize)
        /\ value("-ngl") = chosen(o.gpuLayers, r.gpuLayers)
        /\ value("-t") = chosen(o.threads, r.cpuThreads)
        /\ value("-b") = chosen(o.batchSize, r.batchSize)

C21_Witness ==
  /\ exec # NoExec
  /\ exec.options.contextSize = 0 /\ exec.options.gpuLayers = 512
  /\ exec.options.threads = Undefined /\ exec.options.batchSize = Undefined
  /\ os = SmallMachine

\* C22: --mmproj is on the command line, followed by the projector path, exactly
\* when multimodal is true and a projector path was given; --port is on it,
\* followed by the port, exactly when a port was given.
C22_OptionalFlags ==
  exec # NoExec =>
    LET o == exec.options
        a == exec.args
        at(flag) == {i \in 1..Len(a) : a[i] = flag}
        given(text) == text \notin {Absent, ""}
    IN  /\ at("--mmproj") # {} <=> (o.multimodal = "true" /\ given(o.mmprojPath))
        /\ \A i \in at("--mmproj") : i < Len(a) /\ a[i+1] = o.mmprojPath
        /\ at("--port") # {} <=> given(o.port)
        /\ \A i \in at("--port") : i < Len(a) /\ a[i+1] = o.port

C22_Witness ==
  /\ exec # NoExec
  /\ exec.options.multimodal = "true" /\ exec.options.mmprojPath = Absent
  /\ exec.options.port = "9090"
  /\ Len(exec.args) = 12

\* C23: refresh() runs one detection, getProfile() runs one when none has run
\* and none otherwise; getProfile() returns the snapshot of the latest detection;
\* no step changes a snapshot returned earlier.
C23_DetectionsAndSnapshots ==
  [][ /\ refresh => Len(snapshots') = Len(snapshots) + 1
      /\ getProfile => /\ Len(snapshots') = IF snapshots = <<>> THEN 1
                                            ELSE Len(snapshots)
                       /\ profile' = snapshots'[Len(snapshots')]
      /\ \A i \in 1..Len(snapshots) :
            i <= Len(snapshots') /\ snapshots'[i] = snapshots[i]
    ]_vars

C23_Witness ==
  /\ Len(snapshots) = 2
  /\ snapshots[1] # snapshots[2]
  /\ profile = snapshots[2]
  /\ detectHardware(os) # profile

\* C24: a profile detected on a host that is not Apple Silicon under macOS, or
\* whose sysctl probe throws, is not marked unified-memory and has half of the
\* logical cores as performance cores and half as efficiency cores.
C24_PortableDefault ==
  ( /\ profile = detectHardware(os)
    /\ (~isAppleSilicon(os) \/ os.brand = "throws" \/ os.cores = "throws") )
  => ( /\ ~profile.unifiedMemory
       /\ profile.performanceCores = os.cpuCores \div 2
       /\ profile.efficiencyCores = os.cpuCores \div 2 )

\* C25: every field of a detected profile has a value of its type, whatever the
\* platform and whatever became of the probes.
C25_EveryFieldDefined ==
  \A i \in 1..Len(snapshots) :
     /\ snapshots[i].cpuModel \in {"cpu", "Unknown"}
     /\ snapshots[i].cpuCores \in Nat
     /\ snapshots[i].performanceCores \in Nat
     /\ snapshots[i].efficiencyCores \in Nat
     /\ snapshots[i].isAppleSilicon \in BOOLEAN
     /\ snapshots[i].generation \in Generations
     /\ snapshots[i].variant \in Variants
     /\ snapshots[i].gpuCores \in Nat
     /\ snapshots[i].neuralEngineCores \in Nat
     /\ snapshots[i].totalMemoryGB \in Nat
     /\ snapshots[i].unifiedMemory \in BOOLEAN
     /\ \A f \in {"gpuLayers", "cpuThreads", "contextSize", "maxModelSizeGB",
                  "batchSize"} : snapshots[i].recommended[f] \in Nat

C25_Witness ==
  /\ os.platform = "darwin" /\ os.cores = "NaN" /\ os.brand = "throws"
  /\ os.performanceCores > 0
  /\ profile = detectHardware(os)
  /\ profile.performanceCores = 0

\* C26: memoryUsage() is fulfilled, with 0 when pidusage reports an error or no
\* child is registered, and else with the sum of the memory sampled for the
\* registered children, each of them sampled and no other child.
C26_MemoryUsage ==
  query.op = "memoryUsage" =>
    LET registered == {p \in Pids : \E id \in Ids : processes[id] = p}
        withPid == {p \in registered : proc[p].exit # "ENOENT"}
        sum[S \in SUBSET Pids] ==
          IF S = {} THEN 0
          ELSE LET p == CHOOSE x \in S : TRUE IN query.stats[p] + sum[S \ {p}]
    IN  /\ query.result.status = "fulfilled"
        /\ query.pids = withPid
        /\ (query.err \/ registered = {}) => query.result.value = 0
        /\ ~query.err => /\ DOMAIN query.stats = withPid
                         /\ query.result.value = sum[withPid]

C26_Witness ==
  /\ query.op = "memoryUsage" /\ ~query.err
  /\ Cardinality(query.pids) = 1
  /\ \E p \in Pids : Registered(p) /\ proc[p].exit = "ENOENT"
  /\ query.result.value = MaxRss

\* C27: encode() and getModelParameters() send one request; when the request
\* fails in transport or its body is not JSON they reject; when /tokenize
\* answers with tokens, encode() is fulfilled with those tokens, in that order.
C27_OneRequestExplicitFailure ==
  query.op \in {"encode", "getModelParameters"} =>
    /\ query.requests = 1
    /\ query.response.kind \in {"networkError", "notJSON"}
          => query.result.status = "rejected"
    /\ (query.op = "encode" /\ query.response.kind = "json" /\ query.response.hasTokens)
          => /\ query.result.status = "fulfilled"
             /\ query.result.defined
             /\ query.result.tokens = query.response.tokens

C27_Witness ==
  /\ query.op = "encode"
  /\ query.response.kind = "json" /\ query.response.tokens = <<2, 1>>
  /\ query.result.status = "fulfilled"

\* C29: a query goes to the port the engine was launched with: the port of
\* the options when one was given, and 8080 otherwise.
C29_QueriesFollowPort ==
  (query.op \in {"encode", "getModelParameters"} /\ exec # NoExec)
     => query.port = (IF exec.options.port \in {Absent, ""} THEN "8080"
                      ELSE exec.options.port)

\* C31: a child that is running and that nobody has signalled is the child
\* registered under its id.
C31_LiveChildRegistered ==
  \A p \in Pids :
     (Alive(p) /\ proc[p].killed = "no") => processes[proc[p].id] = p

\* C32: the child an automatic restart starts has the options of the child
\* whose 'close' event started it.
C32_RestartReusesCrashedOptions ==
  [][ (last'.op = "close" /\ last'.new # None)
         => proc'[last'.new].options = proc[last'.p].options ]_vars

C34_LaunchOnRecordChangesNothing ==
  [][ (last'.op = "launch" /\ loading[last'.id] # None)
         => /\ UNCHANGED <<proc, processes, loading, launchOptions, nextPid,
                           profile, snapshots>>
            /\ last'.new = None
            /\ last'.p = loading[last'.id] ]_vars

C34_Witness ==
  /\ last.op = "launch" /\ last.new = None
  /\ Ready(last.p) /\ Registered(last.p)
  /\ launchOptions[last.id] = proc[last.p].options
  /\ \E p \in Pids : InFlight(p) /\ proc[p].id # last.id

\* C35: when the 'close' event of a child that ran has rejected the promise of
\* its launch, a launchServer call for its id that comes next starts a child and
\* returns the promise of that child.
C35_FailureNotCached ==
  [][ ( /\ last.op = "close" /\ last.outcome = "rejected" /\ last.cause # "ENOENT"
        /\ last'.op = "launch" /\ last'.id = last.id )
      => ( /\ last'.new # None /\ last'.p = last'.new
           /\ last'.new # last.p ) ]_vars

\* C36: a launchServer call, a readiness, a 'close' event with its restart or a
\* cleanupProcess call about one id leaves the entries of processes, loading and
\* launchOptions of every other id as they are.
C36_SessionsIndependent ==
  [][ \A b \in Ids :
        LET about == IF last'.op = "io"
                     THEN {proc[p].id : p \in {q \in Pids : proc'[q] # proc[q]}}
                     ELSE {last'.id}
        IN  (last'.op # "closeAll" /\ b \notin about)
               => /\ processes'[b] = processes[b]
                  /\ loading'[b] = loading[b]
                  /\ launchOptions'[b] = launchOptions[b] ]_vars

C36_Witness ==
  /\ last.op = "close" /\ last.new # None /\ last.id = 1
  /\ \E p \in Pids : Registered(p) /\ proc[p].id = 2 /\ Ready(p)
  /\ launchOptions[2] # None /\ launchOptions[2] # launchOptions[1]

\* C37: the model getDefaultModel(m) returns is one of those
\* getModelsForMemory(m) returns, and ten times its minimum memory is at most
\* six times m.
C37_DefaultIsCompatible ==
  query.op = "getDefaultModel" =>
    /\ \E i \in 1..Len(modelsForMemory(query.memory)) :
          modelsForMemory(query.memory)[i] = query.model
    /\ 10 * query.model.minMemoryGB <= 6 * query.memory

====
